---- MODULE Spec2Model ----
(* Model of secgpt/schema/base.py: FilingType, BaseFiling and the callers'   *)
(* view of the dict objects a BaseFiling instance keeps by reference.        *)
EXTENDS Integers, FiniteSets, Sequences, TLC

(* ------------------------------------------------------------------------ *)
(* Bounds                                                                    *)
(* ------------------------------------------------------------------------ *)
MaxKeys == 2
MaxTexts == 2

\* two instances: a method reads and writes the one instance it is called on,
\* so every interaction between instances shows with two
Records == {1, 2}
\* the dict objects and the FilingInfo objects the callers hold
DictRefs == {1, 2}
InfoRefs == {1, 2}
SectionKeys == 1..MaxKeys
Texts == 1..MaxTexts
\* cap on the number of entries held by all the callers' dicts together
MaxEntries == Cardinality(DictRefs)

(* ------------------------------------------------------------------------ *)
(* Python values                                                             *)
(* ------------------------------------------------------------------------ *)
\* the value None; object references are positive
None == 0
\* marks an attribute name that is missing from an instance's __dict__
Unset == 0 - 1

\* class FilingType(str, Enum): the members' values
FilingType == {"10-K", "10-Q", "8-K"}

\* the messages of the three assert statements
MsgNoData == "No filing data, use from_dict() to fill the data first"
MsgNoKey == "Not supported section item"
MsgNoInfo == "Not set filing info, please set_filing_info() first"

\* outcomes of a call
ReturnNone == [kind |-> "None", ref |-> 0, text |-> ""]
ReturnRef(x) == [kind |-> "ref", ref |-> x, text |-> ""]
ReturnVal(x) == [kind |-> "val", ref |-> x, text |-> ""]
ReturnStr(s) == [kind |-> "str", ref |-> 0, text |-> s]
Raise(exc, msg) == [kind |-> exc, ref |-> 0, text |-> msg]

\* the three failures: one exception class, told apart by the message
UnpopulatedDataError == Raise("AssertionError", MsgNoData)
UnknownSectionKeyError == Raise("AssertionError", MsgNoKey)
UnpopulatedMetadataError == Raise("AssertionError", MsgNoInfo)

\* the contents a dict object can have: a function from some keys to texts
Mappings == UNION {[S -> Texts] : S \in SUBSET SectionKeys}

\* the classes an instance can be of: the base class and one subclass per
\* FilingType member
Classes == {"BaseFiling", "Filing10K", "Filing10Q", "Filing8K"}

VARIABLES
    klass,     \* attributes of class BaseFiling (the declared defaults)
    inst,      \* inst[r]: the instance __dict__ of record r
    heap,      \* heap[d]: current contents of dict object d
    ingested,  \* history: argument of the latest from_dict on r, 0 if none
    attached,  \* history: argument of the latest set_filing_info on r, 0 if none
    lastOp     \* the latest call and its outcome

vars == <<klass, inst, heap, ingested, attached, lastOp>>

\* the program state the methods act on
St == [inst |-> inst, klass |-> klass, heap |-> heap]

(* ------------------------------------------------------------------------ *)
(* Attribute access                                                          *)
(* ------------------------------------------------------------------------ *)
\* self.<f>: the instance attribute when set, else the class attribute
GetAttr(s, r, f) ==
    IF s.inst[r][f] # Unset THEN s.inst[r][f] ELSE s.klass[f]

\* type(self).<f> = v: writes the attribute of the class
SetClassAttr(s, r, f, v) ==
    [s EXCEPT !.klass[f] = v]

\* self.<f> = v: writes the __dict__ of the instance only
SetAttr(s, r, f, v) ==
    [s EXCEPT !.inst[r][f] = v]

(* ------------------------------------------------------------------------ *)
(* Methods of BaseFiling                                                     *)
(* ------------------------------------------------------------------------ *)
\* get_type of a subclass that overrides it
VariantType(c) ==
    CASE c = "Filing10K" -> "10-K"
      [] c = "Filing10Q" -> "10-Q"
      [] c = "Filing8K" -> "8-K"

\* get_type: the base class body is a docstring only and returns None
get_type(c) ==
    IF c = "BaseFiling" THEN ReturnNone ELSE ReturnStr(VariantType(c))

\* keeps the first value attached
set_filing_info_first_wins(s, r, info) ==
    IF GetAttr(s, r, "filing_info") = None
    THEN SetAttr(s, r, "filing_info", info)
    ELSE s

set_filing_info(s, r, info) ==
    SetAttr(s, r, "filing_info", info)

\* merges into the dict already held: self.data.update(data)
from_dict_update(s, r, data) ==
    LET old == GetAttr(s, r, "data") IN
    IF old = None
    THEN SetAttr(s, r, "data", data)
    ELSE [s EXCEPT !.heap[old] =
            [k \in (DOMAIN s.heap[old]) \cup (DOMAIN s.heap[data]) |->
                IF k \in DOMAIN s.heap[data] THEN s.heap[data][k]
                ELSE s.heap[old][k]]]

\* keeps a copy, placed in another dict object, instead of the argument
from_dict_copy(s, r, data) ==
    LET other == CHOOSE d \in DictRefs : d # data IN
    SetAttr([s EXCEPT !.heap[other] = s.heap[data]], r, "data", other)

from_dict(s, r, data) ==
    SetAttr(s, r, "data", data)

\* checks the truth value of self.data instead of "is not None"
get_data_by_section_truthy(s, r, section_key) ==
    LET d == GetAttr(s, r, "data") IN
    IF d = None \/ DOMAIN s.heap[d] = {} THEN Raise("AssertionError", MsgNoData)
    ELSE IF section_key \notin DOMAIN s.heap[d]
         THEN Raise("AssertionError", MsgNoKey)
         ELSE ReturnVal(s.heap[d][section_key])

\* dict.get(section_key, None) instead of the key assert
get_data_by_section_default(s, r, section_key) ==
    LET d == GetAttr(s, r, "data") IN
    IF d = None THEN Raise("AssertionError", MsgNoData)
    ELSE IF section_key \notin DOMAIN s.heap[d]
         THEN ReturnNone
         ELSE ReturnVal(s.heap[d][section_key])

\* returns the first value of the dict whatever the key
get_data_by_section_first(s, r, section_key) ==
    LET d == GetAttr(s, r, "data") IN
    IF d = None THEN Raise("AssertionError", MsgNoData)
    ELSE IF section_key \notin DOMAIN s.heap[d]
         THEN Raise("AssertionError", MsgNoKey)
         ELSE ReturnVal(s.heap[d][CHOOSE k \in DOMAIN s.heap[d] :
                                    \A j \in DOMAIN s.heap[d] : k <= j])

get_data_by_section(s, r, section_key) ==
    LET d == GetAttr(s, r, "data") IN
    IF d = None THEN Raise("AssertionError", MsgNoData)
    ELSE IF section_key \notin DOMAIN s.heap[d]
         THEN Raise("AssertionError", MsgNoKey)
         ELSE ReturnVal(s.heap[d][section_key])

\* no assert: returns whatever self.data is
get_data_unchecked(s, r) ==
    LET d == GetAttr(s, r, "data") IN
    IF d = None THEN ReturnNone ELSE ReturnRef(d)

get_data(s, r) ==
    LET d == GetAttr(s, r, "data") IN
    IF d = None THEN Raise("AssertionError", MsgNoData) ELSE ReturnRef(d)

\* no assert: returns whatever self.filing_info is
get_filing_info_unchecked(s, r) ==
    LET i == GetAttr(s, r, "filing_info") IN
    IF i = None THEN ReturnNone ELSE ReturnRef(i)

get_filing_info(s, r) ==
    LET i == GetAttr(s, r, "filing_info") IN
    IF i = None THEN Raise("AssertionError", MsgNoInfo) ELSE ReturnRef(i)

(* ------------------------------------------------------------------------ *)
(* State machine                                                             *)
(* ------------------------------------------------------------------------ *)
NoOp == [op |-> "new", rec |-> 0, cls |-> "", arg |-> 0, key |-> 0,
         prev |-> 0, ret |-> ReturnNone]

\* number of entries in all dict objects
TotalEntries(h) ==
    Cardinality({p \in DictRefs \X SectionKeys : p[2] \in DOMAIN h[p[1]]})

\* records just constructed: nothing in any __dict__, class defaults None;
\* the callers' dict objects have any contents
Init ==
    /\ klass = [data |-> None, filing_info |-> None, extra_info |-> None]
    /\ inst = [r \in Records |->
                 [data |-> Unset, filing_info |-> Unset, extra_info |-> Unset]]
    /\ heap \in {h \in [DictRefs -> Mappings] :
                    TotalEntries(h) <= MaxEntries}
    /\ ingested = [r \in Records |-> 0]
    /\ attached = [r \in Records |-> 0]
    /\ lastOp = NoOp

Install(s) ==
    /\ inst' = s.inst
    /\ klass' = s.klass
    /\ heap' = s.heap

SetFilingInfo(r, info) ==
    /\ Install(set_filing_info(St, r, info))
    /\ attached' = [attached EXCEPT ![r] = info]
    /\ lastOp' = [NoOp EXCEPT !.op = "set_filing_info", !.rec = r,
                              !.arg = info, !.prev = attached[r]]
    /\ UNCHANGED <<ingested>>

FromDict(r, data) ==
    /\ Install(from_dict(St, r, data))
    /\ ingested' = [ingested EXCEPT ![r] = data]
    /\ lastOp' = [NoOp EXCEPT !.op = "from_dict", !.rec = r,
                              !.arg = data, !.prev = ingested[r]]
    /\ UNCHANGED <<attached>>

GetDataBySection(r, section_key) ==
    /\ lastOp' = [NoOp EXCEPT !.op = "get_data_by_section", !.rec = r,
                              !.key = section_key,
                              !.ret = get_data_by_section(St, r, section_key)]
    /\ UNCHANGED <<klass, inst, heap, ingested, attached>>

GetData(r) ==
    /\ lastOp' = [NoOp EXCEPT !.op = "get_data", !.rec = r,
                              !.ret = get_data(St, r)]
    /\ UNCHANGED <<klass, inst, heap, ingested, attached>>

GetFilingInfo(r) ==
    /\ lastOp' = [NoOp EXCEPT !.op = "get_filing_info", !.rec = r,
                              !.ret = get_filing_info(St, r)]
    /\ UNCHANGED <<klass, inst, heap, ingested, attached>>

\* get_type is a classmethod: the call needs a class, no instance state
GetType(c) ==
    /\ lastOp' = [NoOp EXCEPT !.op = "get_type", !.cls = c,
                              !.ret = get_type(c)]
    /\ UNCHANGED <<klass, inst, heap, ingested, attached>>

\* a caller writes d[k] = v on a dict object it passed to from_dict or got
\* from get_data
DictSetItem(d, k, v) ==
    /\ k \in DOMAIN heap[d] \/ TotalEntries(heap) < MaxEntries
    /\ heap' = [heap EXCEPT ![d] =
                  [j \in (DOMAIN heap[d]) \cup {k} |->
                      IF j = k THEN v ELSE heap[d][j]]]
    /\ lastOp' = [NoOp EXCEPT !.op = "dict_setitem", !.arg = d, !.key = k]
    /\ UNCHANGED <<klass, inst, ingested, attached>>

\* a caller runs del d[k] on such a dict object
DictDelItem(d, k) ==
    /\ k \in DOMAIN heap[d]
    /\ heap' = [heap EXCEPT ![d] =
                  [j \in (DOMAIN heap[d]) \ {k} |-> heap[d][j]]]
    /\ lastOp' = [NoOp EXCEPT !.op = "dict_delitem", !.arg = d, !.key = k]
    /\ UNCHANGED <<klass, inst, ingested, attached>>

\* the operations of a record
NextOps ==
    \/ \E r \in Records, info \in InfoRefs : SetFilingInfo(r, info)
    \/ \E r \in Records, data \in DictRefs : FromDict(r, data)
    \/ \E r \in Records, k \in SectionKeys : GetDataBySection(r, k)
    \/ \E r \in Records : GetData(r)
    \/ \E r \in Records : GetFilingInfo(r)
    \/ \E c \in Classes : GetType(c)

Next ==
    \/ \E r \in Records, info \in InfoRefs : SetFilingInfo(r, info)
    \/ \E r \in Records, data \in DictRefs : FromDict(r, data)
    \/ \E r \in Records, k \in SectionKeys : GetDataBySection(r, k)
    \/ \E r \in Records : GetData(r)
    \/ \E r \in Records : GetFilingInfo(r)
    \/ \E c \in Classes : GetType(c)
    \/ \E d \in DictRefs, k \in SectionKeys, v \in Texts : DictSetItem(d, k, v)
    \/ \E d \in DictRefs, k \in SectionKeys : DictDelItem(d, k)

\* records and the callers that mutate the dicts they share with them
Spec == Init /\ [][Next]_vars

\* records only: no dict object changes after it was passed in
SpecOps == Init /\ [][NextOps]_vars

(* ------------------------------------------------------------------------ *)
(* Properties                                                                *)
(* ------------------------------------------------------------------------ *)
Fields == {"data", "filing_info", "extra_info"}

\* the record was populated by from_dict and m is the dict it was given
Populated(r) == ingested[r] # 0
Sections(r) == heap[ingested[r]]

\* C1: after from_dict(m) on a record, with only record operations in
\* between and no later from_dict, get_data_by_section(k) for a key k of m
\* returns exactly m[k].
C1_SectionRoundTrip ==
    (/\ lastOp.op = "get_data_by_section"
     /\ Populated(lastOp.rec)
     /\ lastOp.key \in DOMAIN Sections(lastOp.rec))
    => lastOp.ret = ReturnVal(Sections(lastOp.rec)[lastOp.key])

C1_Witness ==
    /\ lastOp.op = "get_data_by_section"
    /\ Populated(lastOp.rec)
    /\ attached[lastOp.rec] # 0
    /\ Cardinality(DOMAIN Sections(lastOp.rec)) = 2
    /\ lastOp.key = 2
    /\ lastOp.ret = ReturnVal(2)
    /\ Sections(lastOp.rec)[1] = 1

\* C2: on a record on which from_dict was never called, get_data_by_section
\* (any key) and get_data both fail with the "no filing data" assertion,
\* whatever set_filing_info calls were made before.
C2_UnpopulatedDataFails ==
    (/\ lastOp.op \in {"get_data_by_section", "get_data"}
     /\ ~Populated(lastOp.rec))
    => lastOp.ret = UnpopulatedDataError

C2_Witness ==
    /\ lastOp.op = "get_data"
    /\ ~Populated(lastOp.rec)
    /\ attached[lastOp.rec] # 0
    /\ lastOp.ret = UnpopulatedDataError

\* C3: on a populated record, get_data_by_section(k) for a key k that the
\* ingested dict does not hold fails with the "not supported section item"
\* assertion, which differs from the other two failures; nothing is returned.
C3_UnknownKeyFails ==
    (/\ lastOp.op = "get_data_by_section"
     /\ Populated(lastOp.rec)
     /\ lastOp.key \notin DOMAIN Sections(lastOp.rec))
    => /\ lastOp.ret = UnknownSectionKeyError
       /\ lastOp.ret \notin {UnpopulatedDataError, UnpopulatedMetadataError}

C3_Witness ==
    /\ lastOp.op = "get_data_by_section"
    /\ Populated(lastOp.rec)
    /\ DOMAIN Sections(lastOp.rec) # {}
    /\ lastOp.key \notin DOMAIN Sections(lastOp.rec)
    /\ lastOp.ret = UnknownSectionKeyError

\* C4: on a record on which set_filing_info was never called,
\* get_filing_info fails with the "not set filing info" assertion, however
\* many from_dict calls were made.
C4_UnpopulatedMetadataFails ==
    (lastOp.op = "get_filing_info" /\ attached[lastOp.rec] = 0)
    => lastOp.ret = UnpopulatedMetadataError

C4_Witness ==
    /\ lastOp.op = "get_filing_info"
    /\ attached[lastOp.rec] = 0
    /\ Populated(lastOp.rec)
    /\ lastOp.ret = UnpopulatedMetadataError

\* C5: once set_filing_info was called on a record, get_filing_info returns
\* the object passed to the latest set_filing_info call (last write wins).
C5_LastMetadataWins ==
    /\ \A r \in Records :
          attached[r] # 0 => get_filing_info(St, r) = ReturnRef(attached[r])
    /\ (lastOp.op = "get_filing_info" /\ attached[lastOp.rec] # 0)
          => lastOp.ret = ReturnRef(attached[lastOp.rec])

\* a second set_filing_info with an object other than the first just ran
C5_Witness ==
    /\ lastOp.op = "set_filing_info"
    /\ lastOp.prev # 0
    /\ lastOp.prev # lastOp.arg
    /\ get_filing_info(St, lastOp.rec) = ReturnRef(lastOp.arg)

\* C6: get_type of every class that can be instantiated returns a member of
\* FilingType.
C6_GetTypeReturnsMember ==
    lastOp.op = "get_type"
    => (lastOp.ret.kind = "str" /\ lastOp.ret.text \in FilingType)

\* C7: from_dict replaces the section data wholesale: the step leaves the
\* dict's entries as given and get_data then returns that dict; in every
\* state the record's data is None or the argument of the latest from_dict,
\* and a key of an earlier dict that the latest one lacks is unknown.
C7_Inv ==
    /\ \A r \in Records :
          /\ GetAttr(St, r, "data") = (IF Populated(r) THEN ingested[r] ELSE None)
          /\ Populated(r) => get_data(St, r) = ReturnRef(ingested[r])
    /\ (lastOp.op = "get_data" /\ Populated(lastOp.rec))
          => lastOp.ret = ReturnRef(ingested[lastOp.rec])

C7_Step ==
    lastOp'.op = "from_dict"
    => /\ heap' = heap
       /\ GetAttr(St', lastOp'.rec, "data") = lastOp'.arg
       /\ \A k \in SectionKeys :
             k \notin DOMAIN heap[lastOp'.arg]
             => get_data_by_section(St', lastOp'.rec, k) = UnknownSectionKeyError

C7_IngestReplaces == [](C7_Inv) /\ [][C7_Step]_vars

\* a second from_dict ran, with a dict that lacks a key of the first
C7_Witness ==
    /\ lastOp.op = "from_dict"
    /\ lastOp.prev # 0
    /\ lastOp.prev # lastOp.arg
    /\ (DOMAIN heap[lastOp.prev]) \ (DOMAIN heap[lastOp.arg]) # {}

\* C8: frame. set_filing_info changes only the filing_info of its record,
\* from_dict only the data of its record, the four getters nothing; no call
\* changes an attribute of another record, the class attributes or a dict.
Unchanged(r, f) == GetAttr(St', r, f) = GetAttr(St, r, f)

C8_Step ==
    /\ lastOp'.op = "set_filing_info"
          => /\ \A r \in Records, f \in Fields :
                   (r = lastOp'.rec /\ f = "filing_info") \/ Unchanged(r, f)
             /\ heap' = heap /\ klass' = klass
    /\ lastOp'.op = "from_dict"
          => /\ \A r \in Records, f \in Fields :
                   (r = lastOp'.rec /\ f = "data") \/ Unchanged(r, f)
             /\ heap' = heap /\ klass' = klass
    /\ lastOp'.op \in {"get_data_by_section", "get_data", "get_filing_info",
                       "get_type"}
          => /\ \A r \in Records, f \in Fields : Unchanged(r, f)
             /\ heap' = heap /\ klass' = klass /\ inst' = inst

C8_Frame == [][C8_Step]_vars

\* from_dict ran on a record that has metadata while another record is
\* still on the class defaults
C8_Witness ==
    /\ lastOp.op = "from_dict"
    /\ attached[lastOp.rec] # 0
    /\ GetAttr(St, lastOp.rec, "filing_info") = attached[lastOp.rec]
    /\ \E r \in Records :
          /\ r # lastOp.rec
          /\ ~Populated(r)
          /\ attached[r] = 0
          /\ GetAttr(St, r, "data") = None

\* C9: an empty dict counts as populated: get_data returns it and
\* get_data_by_section fails with the unknown-key assertion; the unknown-key
\* failure is reported on populated records only, the data check comes first.
C9_EmptyIsPopulated ==
    /\ (/\ lastOp.op = "get_data"
        /\ Populated(lastOp.rec)
        /\ DOMAIN Sections(lastOp.rec) = {})
          => /\ lastOp.ret = ReturnRef(ingested[lastOp.rec])
             /\ DOMAIN heap[lastOp.ret.ref] = {}
    /\ (/\ lastOp.op = "get_data_by_section"
        /\ Populated(lastOp.rec)
        /\ DOMAIN Sections(lastOp.rec) = {})
          => lastOp.ret = UnknownSectionKeyError
    /\ lastOp.op = "get_data_by_section"
          => /\ lastOp.ret.kind \in {"val", "AssertionError"}
             /\ lastOp.ret = UnknownSectionKeyError => Populated(lastOp.rec)
             /\ ~Populated(lastOp.rec) => lastOp.ret = UnpopulatedDataError

C9_Witness ==
    /\ lastOp.op = "get_data_by_section"
    /\ Populated(lastOp.rec)
    /\ DOMAIN Sections(lastOp.rec) = {}
    /\ lastOp.ret = UnknownSectionKeyError

\* C10: the record keeps the very dict it was given and get_data returns it:
\* after a caller's d[k] = v or del d[k], every record that ingested d reads
\* the change, two records that ingested the same dict included.
C10_SharedByReference ==
    /\ (lastOp.op = "get_data" /\ lastOp.ret.kind = "ref")
          => lastOp.ret.ref = ingested[lastOp.rec]
    /\ lastOp.op = "dict_setitem"
          => \A r \in Records :
                ingested[r] = lastOp.arg
                => /\ get_data(St, r) = ReturnRef(lastOp.arg)
                   /\ get_data_by_section(St, r, lastOp.key)
                         = ReturnVal(heap[lastOp.arg][lastOp.key])
    /\ lastOp.op = "dict_delitem"
          => \A r \in Records :
                ingested[r] = lastOp.arg
                => /\ get_data(St, r) = ReturnRef(lastOp.arg)
                   /\ get_data_by_section(St, r, lastOp.key)
                         = UnknownSectionKeyError

\* a caller changed a dict that two records share
C10_Witness ==
    /\ lastOp.op \in {"dict_setitem", "dict_delitem"}
    /\ \E r1, r2 \in Records :
          /\ r1 # r2
          /\ ingested[r1] = lastOp.arg
          /\ ingested[r2] = lastOp.arg
====
